---- MODULE Spec2Model ----
(***************************************************************************)
(* A model of advanced-vector/vector.h: RawMemory<T> (an owning handle to  *)
(* a block of raw slots) and Vector<T> (a RawMemory plus size_).           *)
(*                                                                         *)
(* The heap is a set of blocks, each a sequence of slots.  A slot records  *)
(* whether an object of type T is alive in it (st) and the value its bytes *)
(* hold (val).  Indices are 0-based as in the source; slot i of block b is *)
(* mem[b][i + 1].                                                          *)
(*                                                                         *)
(* Every fallible step of the source (operator new, a constructor or an    *)
(* assignment of T that may throw) consumes one unit of "fuel"; the step   *)
(* that finds the fuel at 1 throws.  Fuel 0 means that nothing throws.  An *)
(* operation is run with every fuel up to the number of fallible steps of  *)
(* its run without a throw, so each of its steps throws in some run.       *)
(***************************************************************************)
EXTENDS Integers, Sequences, FiniteSets, TLC

\* Bounds of the model: the largest capacity and size of one Vector, the
\* largest capacity of each of two Vectors, the number of values given to
\* the operations (value-initialized and moved-from elements hold two
\* further values), and the largest capacity and the number of values of an
\* append-only run.
MaxCap == 4
MaxSize == 4
MaxPairCap == 2
MaxVal == 1
MaxAppendCap == 8
MaxAppendVal == 2

Vecs == {1, 2}
\* One block per Vector plus the block of a temporary (new_data, copy_v).
Blocks == {1, 2, 3}
Values == 1 .. MaxVal
AppendValues == 1 .. MaxAppendVal
Sizes == 0 .. MaxCap
Positions == 0 .. MaxSize

NullBuf == 0
DefaultVal == 0
MovedVal == -1
NoVal == -2

VARIABLES
    elem,   \* traits of T: copyable; nothrowMove (its move constructor and move
            \* assignment are noexcept)
    vec,    \* vec[v]: the Vector object v: exists, buf (data_.buffer_), cap (data_.capacity_), size (size_)
    mem,    \* mem[b]: the slots of block b; <<>> when b is not allocated
    last    \* the operation that produced this state and how it ended

vars == <<elem, vec, mem, last>>

--------------------------------------------------------------------------
\* Slots and the local state of a running operation

RawSlot == [st |-> "raw", val |-> NoVal]
LiveSlot(x) == [st |-> "live", val |-> x]

NoVector == [exists |-> FALSE, buf |-> NullBuf, cap |-> 0, size |-> 0]
EmptyVector == [exists |-> TRUE, buf |-> NullBuf, cap |-> 0, size |-> 0]

SlotAt(M, b, i) == M.mem[b][i + 1]

Start(f, r) ==
    [mem |-> mem, fuel |-> f, burnt |-> 0, threw |-> FALSE, ev |-> {},
     nc |-> 0, nd |-> 0, na |-> 0, nf |-> 0, revive |-> r]

Note(M, e) == [M EXCEPT !.ev = @ \cup {e}]
Fails(M) == M.fuel = 1
Throw(M) == [M EXCEPT !.threw = TRUE, !.fuel = 0]
Burn(M) == [M EXCEPT !.fuel = IF @ > 1 THEN @ - 1 ELSE 0, !.burnt = @ + 1]

NoteRead(M, b, i) ==
    IF SlotAt(M, b, i).st = "raw" THEN Note(M, "read_raw") ELSE M

\* if constexpr (is_nothrow_move_constructible_v<T> || !is_copy_constructible_v<T>)
MovePath == elem.nothrowMove \/ ~elem.copyable

--------------------------------------------------------------------------
\* RawMemory

FreeBlock(M) ==
    CHOOSE b \in Blocks :
        /\ Len(M.mem[b]) = 0
        /\ \A c \in Blocks : c < b => Len(M.mem[c]) > 0

\* RawMemory(size_t capacity): Allocate(n) returns nullptr for n = 0.
NewBuf(M, n) == IF n = 0 THEN NullBuf ELSE FreeBlock(M)

RawMemoryNew(M, b, n) ==
    IF n = 0 THEN M
    ELSE IF Fails(M) THEN Throw(M)
    ELSE [Burn(M) EXCEPT !.mem[b] = [i \in 1 .. n |-> RawSlot], !.na = @ + 1]

\* ~RawMemory(): Deallocate(buffer_); operator delete(nullptr) does nothing.
RawMemoryDtor(M, b) ==
    IF b = NullBuf THEN M
    ELSE LET M1 == IF \E i \in 1 .. Len(M.mem[b]) : M.mem[b][i].st = "live"
                   THEN Note(M, "release_live") ELSE M
         IN [M1 EXCEPT !.mem[b] = <<>>, !.nf = @ + 1]

--------------------------------------------------------------------------
\* Operations of T on slots

\* new (p) T(...): an object with value x starts to live in slot i of b.
PlacementNew(M, b, i, x) ==
    LET M1 == IF SlotAt(M, b, i).st = "live"
              THEN Note(M, "construct_over_live") ELSE M
    IN [M1 EXCEPT !.mem[b][i + 1] = LiveSlot(x), !.nc = @ + 1]

\* std::destroy_at(p)
DestroyAt(M, b, i) ==
    LET M1 == IF SlotAt(M, b, i).st = "raw"
              THEN Note(M, "destroy_raw") ELSE M
    IN [M1 EXCEPT !.mem[b][i + 1] = RawSlot, !.nd = @ + 1]

\* T(): value-initialization, may throw.
DefaultConstruct(M, b, i) ==
    IF Fails(M) THEN Throw(M)
    ELSE PlacementNew(Burn(M), b, i, DefaultVal)

\* T(const T&): may throw.
CopyConstruct(M, sb, si, db, di) ==
    IF Fails(M) THEN Throw(M)
    ELSE PlacementNew(NoteRead(Burn(M), sb, si), db, di, SlotAt(M, sb, si).val)

\* T(T&&): throws only when T is not nothrow-move-constructible; the source
\* is left moved-from.
MoveConstruct(M, sb, si, db, di) ==
    IF ~elem.nothrowMove /\ Fails(M) THEN Throw(M)
    ELSE LET M1 == IF elem.nothrowMove THEN M ELSE Burn(M)
             M2 == PlacementNew(NoteRead(M1, sb, si), db, di, SlotAt(M, sb, si).val)
         IN [M2 EXCEPT !.mem[sb][si + 1].val = MovedVal]

\* The slot an assignment has written x into.  Assigning to a slot whose
\* object has been destroyed is undefined: the bytes take the value, and
\* whether an object lives there afterwards is the build's choice (revive).
Assigned(M, db, di, x) ==
    LET dead == SlotAt(M, db, di).st = "raw"
        M1 == IF dead THEN Note(M, "assign_to_raw") ELSE M
        st == IF dead /\ ~M.revive THEN "raw" ELSE "live"
    IN [M1 EXCEPT !.mem[db][di + 1] = [st |-> st, val |-> x]]

\* T& operator=(const T&): may throw.
CopyAssign(M, sb, si, db, di) ==
    IF Fails(M) THEN Throw(M)
    ELSE Assigned(NoteRead(Burn(M), sb, si), db, di, SlotAt(M, sb, si).val)

\* T& operator=(T&&): throws only when T is not nothrow-move-assignable.
MoveAssign(M, sb, si, db, di) ==
    IF ~elem.nothrowMove /\ Fails(M) THEN Throw(M)
    ELSE LET M1 == IF elem.nothrowMove THEN M ELSE Burn(M)
             M2 == Assigned(NoteRead(M1, sb, si), db, di, SlotAt(M, sb, si).val)
         IN [M2 EXCEPT !.mem[sb][si + 1].val = MovedVal]

\* *p = std::move(buf) for a local object buf holding x.
MoveAssignLocal(M, x, db, di) ==
    IF ~elem.nothrowMove /\ Fails(M) THEN Throw(M)
    ELSE Assigned(IF elem.nothrowMove THEN M ELSE Burn(M), db, di, x)

--------------------------------------------------------------------------
\* Algorithms of <memory> and <algorithm> over slot ranges

\* std::destroy_n(b + i, n)
RECURSIVE DestroyN(_, _, _, _)
DestroyN(M, b, i, n) ==
    IF n = 0 THEN M ELSE DestroyN(DestroyAt(M, b, i), b, i + 1, n - 1)

\* Variant: a throwing constructor leaves the objects built before it.
RECURSIVE ValueConstructNoRollback(_, _, _, _, _)
ValueConstructNoRollback(M, b, i, n, k) ==
    IF k = n THEN M
    ELSE LET M1 == DefaultConstruct(M, b, i + k)
         IN IF M1.threw THEN M1
            ELSE ValueConstructNoRollback(M1, b, i, n, k + 1)

\* std::uninitialized_value_construct_n(b + i, n): k objects are built so far;
\* a throwing constructor destroys them and the exception propagates.
RECURSIVE ValueConstructFrom(_, _, _, _, _)
ValueConstructFrom(M, b, i, n, k) ==
    IF k = n THEN M
    ELSE LET M1 == DefaultConstruct(M, b, i + k)
         IN IF M1.threw THEN DestroyN(M1, b, i, k)
            ELSE ValueConstructFrom(M1, b, i, n, k + 1)

UninitializedValueConstructN(M, b, i, n) == ValueConstructFrom(M, b, i, n, 0)

\* Variant: a copy that leaves what it has built when a constructor throws.
RECURSIVE UninitCopyNoRollback(_, _, _, _, _, _, _)
UninitCopyNoRollback(M, sb, si, n, db, di, k) ==
    IF k = n THEN M
    ELSE LET M1 == CopyConstruct(M, sb, si + k, db, di + k)
         IN IF M1.threw THEN M1
            ELSE UninitCopyNoRollback(M1, sb, si, n, db, di, k + 1)

\* std::uninitialized_copy_n(sb + si, n, db + di)
RECURSIVE UninitCopyFrom(_, _, _, _, _, _, _)
UninitCopyFrom(M, sb, si, n, db, di, k) ==
    IF k = n THEN M
    ELSE LET M1 == CopyConstruct(M, sb, si + k, db, di + k)
         IN IF M1.threw THEN DestroyN(M1, db, di, k)
            ELSE UninitCopyFrom(M1, sb, si, n, db, di, k + 1)

UninitializedCopyN(M, sb, si, n, db, di) == UninitCopyFrom(M, sb, si, n, db, di, 0)

\* std::uninitialized_move_n(sb + si, n, db + di)
RECURSIVE UninitMoveFrom(_, _, _, _, _, _, _)
UninitMoveFrom(M, sb, si, n, db, di, k) ==
    IF k = n THEN M
    ELSE LET M1 == MoveConstruct(M, sb, si + k, db, di + k)
         IN IF M1.threw THEN DestroyN(M1, db, di, k)
            ELSE UninitMoveFrom(M1, sb, si, n, db, di, k + 1)

UninitializedMoveN(M, sb, si, n, db, di) == UninitMoveFrom(M, sb, si, n, db, di, 0)

\* std::copy(sb + si, sb + si + n, db + di): copy-assigns front to back; a
\* throwing assignment leaves what was already assigned.
RECURSIVE StdCopy(_, _, _, _, _, _)
StdCopy(M, sb, si, n, db, di) ==
    IF n = 0 THEN M
    ELSE LET M1 == CopyAssign(M, sb, si, db, di)
         IN IF M1.threw THEN M1
            ELSE StdCopy(M1, sb, si + 1, n - 1, db, di + 1)

\* std::move(b + first, b + lst, b + dest): move-assigns front to back.
RECURSIVE StdMove(_, _, _, _, _)
StdMove(M, b, first, lst, dest) ==
    IF first >= lst THEN M
    ELSE LET M1 == MoveAssign(M, b, first, b, dest)
         IN IF M1.threw THEN M1
            ELSE StdMove(M1, b, first + 1, lst, dest + 1)

\* Variant: the shift to the right done front to back, over its own sources.
RECURSIVE StdMoveForward(_, _, _, _, _)
StdMoveForward(M, b, first, lst, dend) ==
    IF first >= lst THEN M
    ELSE LET M1 == MoveAssign(M, b, first, b, dend - (lst - first))
         IN IF M1.threw THEN M1
            ELSE StdMoveForward(M1, b, first + 1, lst, dend)

\* std::move_backward(b + first, b + lst, b + dend): move-assigns back to
\* front, the last source into dend - 1.
RECURSIVE StdMoveBackward(_, _, _, _, _)
StdMoveBackward(M, b, first, lst, dend) ==
    IF first >= lst THEN M
    ELSE LET M1 == MoveAssign(M, b, lst - 1, b, dend - 1)
         IN IF M1.threw THEN M1
            ELSE StdMoveBackward(M1, b, first, lst - 1, dend - 1)

--------------------------------------------------------------------------
\* The result of an operation: the heap, the Vector, the branch of the code
\* that ran (path), the step that threw (at) and the iterator returned.

NoRet == [b |-> NullBuf, i |-> 0]
Iter(b, i) == [b |-> b, i |-> i]
Ok(M, V, path, ret) == [M |-> M, V |-> V, path |-> path, at |-> "", ret |-> ret]
Failed(M, V, path, at) == [M |-> M, V |-> V, path |-> path, at |-> at, ret |-> NoRet]

--------------------------------------------------------------------------
\* Vector::Reserve.  An operation is written as its steps in order, each
\* step an operator that takes the heap M its predecessor has left.

\* Variant: the old elements are not destroyed before the blocks are swapped.
ReserveSwapNoDestroy(M, V, n, nb) ==
    IF M.threw THEN Failed(RawMemoryDtor(M, nb), V, "grow", "transfer")
    ELSE Ok(RawMemoryDtor(M, V.buf), [V EXCEPT !.buf = nb, !.cap = n], "grow", NoRet)

\* ... std::destroy_n(data_.GetAddress(), size_); data_.Swap(new_data);
\* M: after the transfer into the new block nb.  When the transfer threw,
\* new_data goes out of scope and releases nb.
ReserveSwap(M, V, n, nb) ==
    IF M.threw THEN Failed(RawMemoryDtor(M, nb), V, "grow", "transfer")
    ELSE Ok(RawMemoryDtor(DestroyN(M, V.buf, 0, V.size), V.buf),
            [V EXCEPT !.buf = nb, !.cap = n], "grow", NoRet)

\* Variant: a transfer that moves whatever the element type.
ReserveTransferMoving(M, V, n, nb) ==
    IF M.threw THEN Failed(M, V, "grow", "alloc")
    ELSE ReserveSwap(UninitializedMoveN(M, V.buf, 0, V.size, nb, 0), V, n, nb)

\* ... uninitialized_move_n or uninitialized_copy_n of [0, size_) into nb.
\* M: after RawMemory<T> new_data(new_capacity).
ReserveTransfer(M, V, n, nb) ==
    IF M.threw THEN Failed(M, V, "grow", "alloc")
    ELSE ReserveSwap(IF MovePath
                     THEN UninitializedMoveN(M, V.buf, 0, V.size, nb, 0)
                     ELSE UninitializedCopyN(M, V.buf, 0, V.size, nb, 0),
                     V, n, nb)

\* Variant: a request for the current capacity reallocates.
ReserveStrict(M, V, n) ==
    IF n < V.cap \/ n = 0 THEN Ok(M, V, "noop", NoRet)
    ELSE ReserveTransfer(RawMemoryNew(M, NewBuf(M, n), n), V, n, NewBuf(M, n))

Reserve_(M, V, n) ==
    IF n <= V.cap THEN Ok(M, V, "noop", NoRet)
    ELSE ReserveTransfer(RawMemoryNew(M, NewBuf(M, n), n), V, n, NewBuf(M, n))

--------------------------------------------------------------------------
\* Vector::Emplace and its callers

\* The argument of an Emplace: "args" builds T from a value, "copy" copies an
\* object outside the Vector, "self" copies the Vector's own element idx
\* (the reference is read when the constructor runs), "move" moves from an
\* object outside the Vector.
ArgVal(M, own, arg) ==
    IF arg.kind = "self" THEN SlotAt(M, own, arg.idx).val ELSE arg.val

ArgMayThrow(arg) == arg.kind # "move" \/ ~elem.nothrowMove

ArgStep(M, arg) ==
    IF ArgMayThrow(arg) THEN (IF Fails(M) THEN Throw(M) ELSE Burn(M)) ELSE M

\* new (b + i) T(std::forward<Args>(args)...)
NewFromArg(M, own, arg, b, i) ==
    IF ArgMayThrow(arg) /\ Fails(M) THEN Throw(M)
    ELSE PlacementNew(IF arg.kind = "self"
                      THEN NoteRead(ArgStep(M, arg), own, arg.idx)
                      ELSE ArgStep(M, arg),
                      b, i, ArgVal(M, own, arg))

\* Variant: the elements after pos_num moved whatever the element type.
TransferAfterMoving(M, V, nb, pos) ==
    UninitializedMoveN(M, V.buf, pos, V.size - pos, nb, pos + 1)

\* The elements after pos_num.  M: after the transfer of [0, pos_num).
TransferAfter(M, V, nb, pos) ==
    IF MovePath
    THEN UninitializedMoveN(M, V.buf, pos, V.size - pos, nb, pos + 1)
    ELSE UninitializedCopyN(M, V.buf, pos, V.size - pos, nb, pos + 1)

\* Variant: the second catch destroys the new element and not the prefix.
CatchAfterNoPrefix(M, nb, pos) ==
    IF M.threw THEN DestroyAt(M, nb, pos) ELSE M

\* catch (...) of the second try block
CatchAfter(M, nb, pos) ==
    IF M.threw THEN DestroyAt(DestroyN(M, nb, 0, pos), nb, pos) ELSE M

\* catch (...) of the first try block, then the second try block
CatchBefore(M, V, nb, pos) ==
    IF M.threw THEN DestroyAt(M, nb, pos)
    ELSE CatchAfter(TransferAfter(M, V, nb, pos), nb, pos)

MoveOrCopyBeforeAndAfterElements(M, V, nb, pos) ==
    CatchBefore(IF MovePath
                THEN UninitializedMoveN(M, V.buf, 0, pos, nb, 0)
                ELSE UninitializedCopyN(M, V.buf, 0, pos, nb, 0),
                V, nb, pos)

\* size_ == 0 == Capacity(): a block of one slot, the element built in its
\* slot 0; data_.Swap(new_data); ++size_
EmplaceFirstSwap(M, V, nb) ==
    IF M.threw THEN Failed(RawMemoryDtor(M, nb), V, "first", "arg")
    ELSE Ok(RawMemoryDtor(M, V.buf),
            [V EXCEPT !.buf = nb, !.cap = 1, !.size = @ + 1], "first", Iter(nb, 0))

EmplaceFirstNew(M, V, arg, nb) ==
    IF M.threw THEN Failed(M, V, "first", "alloc")
    ELSE EmplaceFirstSwap(NewFromArg(M, V.buf, arg, nb, 0), V, nb)

EmplaceFirst(M, V, pos, arg) ==
    EmplaceFirstNew(RawMemoryNew(M, NewBuf(M, 1), 1), V, arg, NewBuf(M, 1))

\* Variant: growth by one slot.
GrownCapacityByOne(size) == size + 1

\* RawMemory<T> new_data(size_ * 2): the capacity a full Vector grows to
GrownCapacity(size) == size * 2

\* size_ == Capacity() > 0: a block of size_ * 2 slots, the element built in
\* its slot pos_num, the old elements transferred around it
EmplaceGrowSwap(M, V, pos, nb) ==
    IF M.threw THEN Failed(RawMemoryDtor(M, nb), V, "grow", "transfer")
    ELSE Ok(RawMemoryDtor(DestroyN(M, V.buf, 0, V.size), V.buf),
            [V EXCEPT !.buf = nb, !.cap = GrownCapacity(V.size), !.size = @ + 1],
            "grow", Iter(nb, pos))

EmplaceGrowTransfer(M, V, pos, nb) ==
    IF M.threw THEN Failed(RawMemoryDtor(M, nb), V, "grow", "arg")
    ELSE EmplaceGrowSwap(MoveOrCopyBeforeAndAfterElements(M, V, nb, pos), V, pos, nb)

EmplaceGrowNew(M, V, pos, arg, nb) ==
    IF M.threw THEN Failed(M, V, "grow", "alloc")
    ELSE EmplaceGrowTransfer(NewFromArg(M, V.buf, arg, nb, pos), V, pos, nb)

EmplaceGrow(M, V, pos, arg) ==
    EmplaceGrowNew(RawMemoryNew(M, NewBuf(M, GrownCapacity(V.size)), GrownCapacity(V.size)),
                   V, pos, arg, NewBuf(M, GrownCapacity(V.size)))

\* size_ < Capacity(), pos_num == size_
EmplaceAtEndDone(M, V, pos) ==
    IF M.threw THEN Failed(M, V, "end", "arg")
    ELSE Ok(M, [V EXCEPT !.size = @ + 1], "end", Iter(V.buf, pos))

EmplaceAtEnd(M, V, pos, arg) ==
    EmplaceAtEndDone(NewFromArg(M, V.buf, arg, V.buf, pos), V, pos)

\* size_ < Capacity(), pos_num < size_: T buf(args...) holds x, the last
\* element is duplicated into slot size_, [pos_num, size_ - 1) is shifted
\* right and buf is assigned into pos_num.

\* ... ptr = begin() + pos_num; ++size_.  M: after *(begin() + pos_num) = std::move(buf)
EmplaceShiftDone(M, V, pos) ==
    IF M.threw THEN Failed(M, V, "shift", "assign")
    ELSE Ok(M, [V EXCEPT !.size = @ + 1], "shift", Iter(V.buf, pos))

\* M: after std::move_backward; its catch (...) destroys the slot at end()
EmplaceShiftAssign(M, V, pos, x) ==
    IF M.threw THEN Failed(DestroyAt(M, V.buf, V.size), V, "shift", "shift")
    ELSE EmplaceShiftDone(MoveAssignLocal(M, x, V.buf, pos), V, pos)

\* M: after uninitialized_move / uninitialized_copy of the last element
EmplaceShiftMove(M, V, pos, x) ==
    IF M.threw THEN Failed(M, V, "shift", "duplicate")
    ELSE EmplaceShiftAssign(StdMoveBackward(M, V.buf, pos, V.size - 1, V.size), V, pos, x)

\* M: after T buf(std::forward<Args>(args)...)
EmplaceShiftDuplicate(M, V, pos, x) ==
    IF M.threw THEN Failed(M, V, "shift", "arg")
    ELSE EmplaceShiftMove(IF MovePath
                          THEN UninitializedMoveN(M, V.buf, V.size - 1, 1, V.buf, V.size)
                          ELSE UninitializedCopyN(M, V.buf, V.size - 1, 1, V.buf, V.size),
                          V, pos, x)

\* Variant: no temporary; the argument is read through its reference after
\* the shift, when an element at or after pos_num has moved one slot right.
EmplaceShiftAliased(M, V, pos, arg) ==
    EmplaceShiftDuplicate(ArgStep(M, arg), V, pos,
                          IF arg.kind = "self" /\ arg.idx = pos THEN MovedVal
                          ELSE IF arg.kind = "self" /\ arg.idx > pos
                          THEN SlotAt(M, V.buf, arg.idx - 1).val
                          ELSE ArgVal(M, V.buf, arg))

EmplaceShift(M, V, pos, arg) ==
    EmplaceShiftDuplicate(ArgStep(M, arg), V, pos, ArgVal(M, V.buf, arg))

Emplace_(M, V, pos, arg) ==
    IF V.size = V.cap
    THEN IF V.size = 0 THEN EmplaceFirst(M, V, pos, arg)
         ELSE EmplaceGrow(M, V, pos, arg)
    ELSE IF pos = V.size THEN EmplaceAtEnd(M, V, pos, arg)
         ELSE EmplaceShift(M, V, pos, arg)

--------------------------------------------------------------------------
\* Vector::Erase, Vector::PopBack, Vector::Resize

\* --size_; return begin() + pos_num.  M: after std::move
EraseDone(M, V, pos) ==
    IF M.threw THEN Failed(M, V, "", "shift")
    ELSE Ok(M, [V EXCEPT !.size = @ - 1], "", Iter(V.buf, pos))

\* Variant: the shift to the left stops one element short of end().
EraseShort(M, V, pos) ==
    EraseDone(StdMove(DestroyAt(M, V.buf, pos), V.buf, pos + 1, V.size - 1, pos), V, pos)

Erase_(M, V, pos) ==
    EraseDone(StdMove(DestroyAt(M, V.buf, pos), V.buf, pos + 1, V.size, pos), V, pos)

\* Variant: --size_ without the test for an empty Vector.
PopBackUnguarded(M, V) ==
    IF V.size > 0
    THEN Ok(DestroyAt(M, V.buf, V.size - 1), [V EXCEPT !.size = @ - 1], "pop", NoRet)
    ELSE Ok(M, [V EXCEPT !.size = @ - 1], "pop", NoRet)

\* Variant: the first element is destroyed instead of the last.
PopBackFront(M, V) ==
    IF V.size > 0
    THEN Ok(DestroyAt(M, V.buf, 0), [V EXCEPT !.size = @ - 1], "pop", NoRet)
    ELSE Ok(M, V, "noop", NoRet)

PopBack_(M, V) ==
    IF V.size > 0
    THEN Ok(DestroyAt(M, V.buf, V.size - 1), [V EXCEPT !.size = @ - 1], "pop", NoRet)
    ELSE Ok(M, V, "noop", NoRet)

\* Variant: size_ is set before the elements are constructed.
ResizeDoneEarly(M, V, n, path) ==
    IF M.threw THEN Failed(M, [V EXCEPT !.size = n], path, "construct")
    ELSE Ok(M, [V EXCEPT !.size = n], path, NoRet)

\* size_ = new_size.  M: after the elements were destroyed or constructed
ResizeDone(M, V, n, path) ==
    IF M.threw THEN Failed(M, V, path, "construct")
    ELSE Ok(M, [V EXCEPT !.size = n], path, NoRet)

\* R: the result of Reserve(new_size), whose exception propagates
ResizeFill(R, size, n) ==
    IF R.M.threw THEN R
    ELSE ResizeDone(UninitializedValueConstructN(R.M, R.V.buf, size, n - size),
                    R.V, n, "grow")

Resize_(M, V, n) ==
    IF n > V.cap THEN ResizeFill(Reserve_(M, V, n), V.size, n)
    ELSE IF n < V.size
    THEN ResizeDone(DestroyN(M, V.buf, n, V.size - n), V, n, "shrink")
    ELSE ResizeDone(UninitializedValueConstructN(M, V.buf, V.size, n - V.size),
                    V, n, "extend")

--------------------------------------------------------------------------
\* Construction, destruction, assignment and Swap.  W is the other Vector.

\* The Vector a constructor has built in block nb, or none when an element
\* constructor threw (the member data_ then releases nb).
Constructed(M, nb, n, at) ==
    IF M.threw THEN Failed(RawMemoryDtor(M, nb), NoVector, "", at)
    ELSE Ok(M, [exists |-> TRUE, buf |-> nb, cap |-> n, size |-> n], "", NoRet)

VectorSizedFill(M, nb, n) ==
    IF M.threw THEN Failed(M, NoVector, "", "alloc")
    ELSE Constructed(UninitializedValueConstructN(M, nb, 0, n), nb, n, "construct")

\* Vector(size_t size)
VectorSized(M, n) == VectorSizedFill(RawMemoryNew(M, NewBuf(M, n), n), NewBuf(M, n), n)

VectorCopyFill(M, W, nb) ==
    IF M.threw THEN Failed(M, NoVector, "", "alloc")
    ELSE Constructed(UninitializedCopyN(M, W.buf, 0, W.size, nb, 0), nb, W.size, "copy")

\* Variant: a member-wise copy, which shares the block of the source.
VectorCopyShallow(M, W) == Ok(M, W, "", NoRet)

\* Vector(const Vector& other)
VectorCopy(M, W) ==
    VectorCopyFill(RawMemoryNew(M, NewBuf(M, W.size), W.size), W, NewBuf(M, W.size))

\* Variant: a Swap that exchanges the storage and leaves size_.
SwapStorageOnly(V, W) ==
    [V |-> [V EXCEPT !.buf = W.buf, !.cap = W.cap],
     W |-> [W EXCEPT !.buf = V.buf, !.cap = V.cap]]

\* void Swap(Vector& other): data_.Swap(other.data_); std::swap(size_, other.size_)
Swap_(V, W) ==
    [V |-> [V EXCEPT !.buf = W.buf, !.cap = W.cap, !.size = W.size],
     W |-> [W EXCEPT !.buf = V.buf, !.cap = V.cap, !.size = V.size]]

\* ~Vector(): destroy_n(data_.GetAddress(), size_), then ~RawMemory()
VectorDtor(M, V) == RawMemoryDtor(DestroyN(M, V.buf, 0, V.size), V.buf)

\* Swap(copy_v), then copy_v goes out of scope.  C: the result of Vector copy_v(rhs)
CopyAndSwap(C, V) ==
    IF C.M.threw THEN Failed(C.M, V, "swap", C.at)
    ELSE Ok(VectorDtor(C.M, Swap_(V, C.V).W), Swap_(V, C.V).V, "swap", NoRet)

\* Variant: the excess tail is not destroyed.
AssignShrinkNoDestroy(M, V, W) ==
    IF M.threw THEN Failed(M, V, "shrink", "assign")
    ELSE Ok(M, [V EXCEPT !.size = W.size], "shrink", NoRet)

\* rhs.size_ < size_.  M: after std::copy of rhs's elements
AssignShrink(M, V, W) ==
    IF M.threw THEN Failed(M, V, "shrink", "assign")
    ELSE Ok(DestroyN(M, V.buf, W.size, V.size - W.size),
            [V EXCEPT !.size = W.size], "shrink", NoRet)

\* M: after uninitialized_copy_n of rhs's further elements
AssignExtendDone(M, V, W) ==
    IF M.threw THEN Failed(M, V, "extend", "copy")
    ELSE Ok(M, [V EXCEPT !.size = W.size], "extend", NoRet)

\* rhs.size_ >= size_.  M: after std::copy of rhs's first size_ elements
AssignExtend(M, V, W) ==
    IF M.threw THEN Failed(M, V, "extend", "assign")
    ELSE AssignExtendDone(UninitializedCopyN(M, W.buf, V.size, W.size - V.size,
                                             V.buf, V.size), V, W)

\* Vector& operator=(const Vector& rhs); same: this == &rhs
CopyAssign_(M, V, W, same) ==
    IF same THEN Ok(M, V, "self", NoRet)
    ELSE IF W.size > V.cap THEN CopyAndSwap(VectorCopy(M, W), V)
    ELSE IF W.size < V.size
    THEN AssignShrink(StdCopy(M, W.buf, 0, W.size, V.buf, 0), V, W)
    ELSE AssignExtend(StdCopy(M, W.buf, 0, V.size, V.buf, 0), V, W)

--------------------------------------------------------------------------
\* The record of the last operation, and the actions

NoArg == [kind |-> "none", val |-> NoVal, idx |-> 0]
Arg(kind, x, i) == [kind |-> kind, val |-> x, idx |-> i]

\* What the state remembers of the operation that led to it.
Done(op, v, w, pos, n, arg, R) ==
    [op |-> op, v |-> v, w |-> w, pos |-> pos, n |-> n, arg |-> arg,
     ok |-> ~R.M.threw, path |-> R.path, at |-> R.at, ev |-> R.M.ev, ret |-> R.ret,
     nc |-> R.M.nc, nd |-> R.M.nd, na |-> R.M.na, nf |-> R.M.nf]

\* The result of an operation that touches no element and cannot throw.
Plain == Ok(Start(0, FALSE), NoVector, "", NoRet)

\* The slots of Vector V in heap m are as the class documents them: the
\* block has cap slots, [0, size) are alive and [size, cap) are raw.
Intact(V, m) ==
    V.exists =>
        /\ V.size <= V.cap
        /\ V.cap = 0 <=> V.buf = NullBuf
        /\ V.cap > 0 =>
              /\ Len(m[V.buf]) = V.cap
              /\ \A i \in 0 .. V.cap - 1 : (m[V.buf][i + 1].st = "live") <=> (i < V.size)

AllIntact == \A v \in Vecs : Intact(vec[v], mem)

\* Between two calls the state remembers no operation.
Idle ==
    [op |-> "", v |-> 0, w |-> 0, pos |-> 0, n |-> 0, arg |-> NoArg,
     ok |-> TRUE, path |-> "", at |-> "", ev |-> {}, ret |-> NoRet,
     nc |-> 0, nd |-> 0, na |-> 0, nf |-> 0]

\* A call starts when the previous one has returned.
Ready == last = Idle

\* The caller goes on to its next call.  A Vector whose slots are no longer
\* as documented is followed no further: what later calls do with it is
\* outside every contract of the class.
Return ==
    /\ last # Idle
    /\ AllIntact
    /\ last' = Idle
    /\ UNCHANGED <<elem, vec, mem>>


\* The fuels to run an operation with, given its run R0 without a throw.
Fuels(R0) == 0 .. R0.M.burnt

\* An operation on Vector v alone has left result R.
Commit(op, v, w, pos, n, arg, R) ==
    /\ vec' = [vec EXCEPT ![v] = R.V]
    /\ mem' = R.M.mem
    /\ last' = Done(op, v, w, pos, n, arg, R)
    /\ UNCHANGED elem

\* Vector()
DefaultCtor(v) ==
    /\ Ready
    /\ ~vec[v].exists
    /\ vec' = [vec EXCEPT ![v] = EmptyVector]
    /\ last' = Done("Vector", v, 0, 0, 0, NoArg, Plain)
    /\ UNCHANGED <<elem, mem>>

\* Vector(size_t size)
SizedCtor(v, n) ==
    /\ Ready /\ ~vec[v].exists
    /\ \E f \in Fuels(VectorSized(Start(0, FALSE), n)) :
       Commit("VectorSized", v, 0, 0, n, NoArg,
              VectorSized(Start(f, FALSE), n))

\* Vector(const Vector& other)
CopyCtor(v, w) ==
    /\ Ready /\ v # w /\ ~vec[v].exists /\ vec[w].exists /\ elem.copyable
    /\ \E f \in Fuels(VectorCopy(Start(0, FALSE), vec[w])) :
       Commit("VectorCopy", v, w, 0, 0, NoArg,
              VectorCopy(Start(f, FALSE), vec[w]))

\* Vector(Vector&& other) noexcept: Swap(other) from the default members
MoveCtor(v, w) ==
    /\ Ready
    /\ v # w /\ ~vec[v].exists /\ vec[w].exists
    /\ LET S == Swap_(EmptyVector, vec[w])
       IN vec' = [vec EXCEPT ![v] = S.V, ![w] = S.W]
    /\ last' = Done("VectorMove", v, w, 0, 0, NoArg, Plain)
    /\ UNCHANGED <<elem, mem>>

\* ~Vector()
Dtor(v) ==
    /\ Ready
    /\ vec[v].exists
    /\ Commit("~Vector", v, 0, 0, 0, NoArg,
              Ok(VectorDtor(Start(0, FALSE), vec[v]), NoVector, "", NoRet))

\* Vector& operator=(const Vector& rhs)
CopyAssignOp(v, w) ==
    /\ Ready /\ vec[v].exists /\ vec[w].exists /\ elem.copyable
    /\ \E f \in Fuels(CopyAssign_(Start(0, FALSE), vec[v], vec[w], v = w)) :
       Commit("CopyAssign", v, w, 0, 0, NoArg,
              CopyAssign_(Start(f, FALSE), vec[v], vec[w], v = w))

\* Vector& operator=(Vector&& rhs) noexcept
MoveAssignOp(v, w) ==
    /\ Ready
    /\ vec[v].exists /\ vec[w].exists
    /\ IF v = w THEN UNCHANGED vec
       ELSE LET S == Swap_(vec[v], vec[w])
            IN vec' = [vec EXCEPT ![v] = S.V, ![w] = S.W]
    /\ last' = Done("MoveAssign", v, w, 0, 0, NoArg, Plain)
    /\ UNCHANGED <<elem, mem>>

\* void Swap(Vector& other) noexcept
Swap(v, w) ==
    /\ Ready
    /\ vec[v].exists /\ vec[w].exists
    /\ LET S == Swap_(vec[v], vec[w])
       IN vec' = [vec EXCEPT ![v] = S.V, ![w] = S.W]
    /\ last' = Done("Swap", v, w, 0, 0, NoArg, Plain)
    /\ UNCHANGED <<elem, mem>>

\* void Resize(size_t new_size)
Resize(v, n) ==
    /\ Ready /\ vec[v].exists
    /\ \E f \in Fuels(Resize_(Start(0, FALSE), vec[v], n)) :
       Commit("Resize", v, 0, 0, n, NoArg,
              Resize_(Start(f, FALSE), vec[v], n))

\* void Reserve(size_t new_capacity)
Reserve(v, n) ==
    /\ Ready /\ vec[v].exists
    /\ \E f \in Fuels(Reserve_(Start(0, FALSE), vec[v], n)) :
       Commit("Reserve", v, 0, 0, n, NoArg,
              Reserve_(Start(f, FALSE), vec[v], n))

EmplaceAs(op, v, pos, arg) ==
    /\ Ready /\ vec[v].exists
    /\ pos <= vec[v].size
    /\ \E f \in Fuels(Emplace_(Start(0, FALSE), vec[v], pos, arg)) :
       Commit(op, v, 0, pos, 0, arg,
              Emplace_(Start(f, FALSE), vec[v], pos, arg))

\* iterator Emplace(const_iterator pos, Args&&... args)
Emplace(v, pos, x) == EmplaceAs("Emplace", v, pos, Arg("args", x, 0))

\* iterator Insert(const_iterator pos, const T& value), value outside the Vector
InsertCopy(v, pos, x) ==
    elem.copyable /\ EmplaceAs("Insert", v, pos, Arg("copy", x, 0))

\* iterator Insert(const_iterator pos, const T& value), value being (*this)[i]
InsertSelf(v, pos, i) ==
    /\ elem.copyable /\ i < vec[v].size
    /\ EmplaceAs("Insert", v, pos, Arg("self", NoVal, i))

\* iterator Insert(const_iterator pos, T&& value)
InsertMove(v, pos, x) == EmplaceAs("Insert", v, pos, Arg("move", x, 0))

\* void PushBack(const T& value)
PushBackCopy(v, x) ==
    elem.copyable /\ EmplaceAs("PushBack", v, vec[v].size, Arg("copy", x, 0))

\* void PushBack(T&& value)
PushBackMove(v, x) == EmplaceAs("PushBack", v, vec[v].size, Arg("move", x, 0))

\* T& EmplaceBack(Args&&... args)
EmplaceBack(v, x) == EmplaceAs("EmplaceBack", v, vec[v].size, Arg("args", x, 0))

\* void PopBack()
PopBack(v) ==
    /\ Ready /\ vec[v].exists
    /\ Commit("PopBack", v, 0, 0, 0, NoArg,
              PopBack_(Start(0, FALSE), vec[v]))

\* iterator Erase(const_iterator pos), pos a valid position
Erase(v, pos, r) ==
    /\ Ready /\ vec[v].exists /\ pos < vec[v].size
    /\ \E f \in Fuels(Erase_(Start(0, r), vec[v], pos)) :
       Commit("Erase", v, 0, pos, 0, NoArg,
              Erase_(Start(f, r), vec[v], pos))

Init ==
    /\ elem \in [copyable : BOOLEAN, nothrowMove : BOOLEAN]
    /\ vec = [v \in Vecs |-> IF v = 1 THEN EmptyVector ELSE NoVector]
    /\ mem = [b \in Blocks |-> <<>>]
    /\ last = Idle

\* The bounds of an exploration: no Vector grows beyond c slots or n elements.
Within(c, n) == \A v \in Vecs : vec'[v].cap <= c /\ vec'[v].size <= n

\* The calls on one Vector, within c slots and n elements
Unary(v, c, n) ==
    \/ DefaultCtor(v)
    \/ \E k \in Sizes : SizedCtor(v, k) /\ Within(c, n)
    \/ Dtor(v)
    \/ \E k \in Sizes : Resize(v, k) /\ Within(c, n)
    \/ \E k \in Sizes : Reserve(v, k) /\ Within(c, n)
    \/ \E pos \in Positions, x \in Values : Emplace(v, pos, x) /\ Within(c, n)
    \/ \E pos \in Positions, x \in Values : InsertCopy(v, pos, x) /\ Within(c, n)
    \/ \E pos \in Positions, i \in Positions : InsertSelf(v, pos, i) /\ Within(c, n)
    \/ \E pos \in Positions, x \in Values : InsertMove(v, pos, x) /\ Within(c, n)
    \/ \E x \in Values : PushBackCopy(v, x) /\ Within(c, n)
    \/ \E x \in Values : PushBackMove(v, x) /\ Within(c, n)
    \/ \E x \in Values : EmplaceBack(v, x) /\ Within(c, n)
    \/ PopBack(v)
    \/ \E pos \in Positions, r \in BOOLEAN : Erase(v, pos, r)

\* The calls on a Vector that name a Vector (possibly itself)
Binary(v, w) ==
    \/ CopyAssignOp(v, w)
    \/ MoveAssignOp(v, w)
    \/ Swap(v, w)

\* The constructors from another Vector
From(v, w) ==
    \/ CopyCtor(v, w)
    \/ MoveCtor(v, w)

\* Two Vectors and every operation, within MaxPairCap slots each.
Next ==
    \/ \E v \in Vecs : Unary(v, MaxPairCap, MaxPairCap)
    \/ \E v, w \in Vecs : Binary(v, w)
    \/ \E v, w \in Vecs : From(v, w)
    \/ Return

Spec == Init /\ [][Next]_vars

\* One Vector and the operations on it, within MaxCap slots and MaxSize
\* elements.
NextOne ==
    \/ Unary(1, MaxCap, MaxSize)
    \/ Binary(1, 1)
    \/ Return

SpecOne == Init /\ [][NextOne]_vars

\* Appends to the default-constructed Vector 1 that return normally, up to
\* MaxAppendCap slots.
Appended == last'.ok /\ Within(MaxAppendCap, MaxAppendCap)

NextAppend ==
    \/ \E x \in AppendValues : PushBackCopy(1, x) /\ Appended
    \/ \E x \in AppendValues : PushBackMove(1, x) /\ Appended
    \/ \E x \in AppendValues : EmplaceBack(1, x) /\ Appended
    \/ Return

SpecAppend == Init /\ [][NextAppend]_vars

--------------------------------------------------------------------------
\* Properties.  In a step of an operation the unprimed variables are the
\* state before the call and the primed ones the state it has left; last'
\* tells the operation, its arguments and how it ended.

\* The values in the slots [0, size) of Vector V in heap m, in order
Contents(V, m) == [i \in 1 .. V.size |-> m[V.buf][i].val]

InsertAt(s, p, x) == SubSeq(s, 1, p) \o <<x>> \o SubSeq(s, p + 1, Len(s))
RemoveAt(s, p) == SubSeq(s, 1, p) \o SubSeq(s, p + 2, Len(s))
Max(a, b) == IF a >= b THEN a ELSE b

EmplaceOps == {"Emplace", "Insert", "PushBack", "EmplaceBack"}
AppendOps == {"PushBack", "EmplaceBack"}

\* [0, size) of V hold live elements and [size, capacity) hold none.
LiveThenRaw(V, m) ==
    (V.exists /\ V.cap > 0) =>
        \A i \in 0 .. V.cap - 1 : (m[V.buf][i + 1].st = "live") <=> (i < V.size)

\* C1: whenever an operation has returned normally, every slot in [0, size)
\* of every Vector holds a live element and every slot in [size, capacity)
\* holds no constructed element.
C1_LiveThenRawAfterReturn ==
    last.ok => \A v \in Vecs : LiveThenRaw(vec[v], mem)

\* C2 as stated: after move construction, and after move assignment into a
\* distinct destination whatever it held, the source has size 0 and
\* capacity 0.
C2_SourceEmptied ==
    (last.op \in {"VectorMove", "MoveAssign"} /\ last.v # last.w) =>
        vec[last.w].size = 0 /\ vec[last.w].cap = 0

\* C2 amended: move construction leaves the source with size 0 and capacity 0
\* and gives the new Vector the source's storage, size and capacity; move
\* assignment into a distinct destination exchanges the two Vectors, so the
\* source is left with the storage, size and capacity the destination had.
\* No element is touched.
C2_MoveExchanges ==
    [][/\ last'.op = "VectorMove" =>
              /\ vec'[last'.w] = EmptyVector
              /\ vec'[last'.v] = vec[last'.w]
              /\ mem' = mem
       /\ (last'.op = "MoveAssign" /\ last'.v # last'.w) =>
              /\ vec'[last'.w] = vec[last'.v]
              /\ vec'[last'.v] = vec[last'.w]
              /\ mem' = mem]_vars

\* A move assignment has left its source holding the elements of the
\* destination.
C2_SourceHoldsElements ==
    /\ last.op = "MoveAssign" /\ last.v # last.w
    /\ vec[last.w].size > 0
    /\ vec[last.v].size > 0

\* A transfer of the old elements into a new block has thrown, in Reserve or
\* in a reallocating Emplace.
TransferFailed(l) ==
    /\ l.op \in {"Reserve"} \cup EmplaceOps
    /\ l.path = "grow" /\ l.at = "transfer"

\* C3 as stated: for every element type, when constructing a transferred
\* element fails during Reserve or a reallocating Emplace, the Vector is
\* exactly as before the call: same size, capacity and storage block, and
\* every element with its original value, none moved-from.
C3_TransferFailureRestores ==
    [][TransferFailed(last') => (vec' = vec /\ mem' = mem)]_vars

\* C3 amended: after such a failure size, capacity and storage block are as
\* before the call, and the new block is released.  When the element type
\* is copy-constructible the transfer has copied and every element keeps
\* its value.  When it is not, the transfer has moved although the move can
\* fail: every old element is still alive, with its original value or
\* moved-from.
C3_TransferFailure ==
    [][TransferFailed(last') =>
          /\ vec' = vec
          /\ elem.copyable => mem' = mem
          /\ \A b \in Blocks :
                /\ Len(mem'[b]) = Len(mem[b])
                /\ \A i \in 1 .. Len(mem[b]) :
                      \/ mem'[b][i] = mem[b][i]
                      \/ /\ ~elem.copyable
                         /\ b = vec[last'.v].buf
                         /\ mem[b][i].st = "live"
                         /\ mem'[b][i] = LiveSlot(MovedVal)]_vars

\* A reallocating Emplace of a move-only type failed after it had moved an
\* element out of the old block.
C3_MovedFromAfterFailure ==
    /\ TransferFailed(last) /\ last.op \in EmplaceOps
    /\ ~elem.copyable
    /\ \E i \in 1 .. vec[last.v].size : mem[vec[last.v].buf][i].val = MovedVal

\* C4: when a step of an in-place middle Emplace fails, size is unchanged,
\* every slot in [0, size) is still live and no slot in [size, capacity)
\* holds a constructed element; when the duplication of the last element is
\* the step that fails, the element values are unchanged too.
C4_ShiftFailureKeepsLayout ==
    [][(last'.op \in EmplaceOps /\ last'.path = "shift" /\ ~last'.ok) =>
          /\ vec'[last'.v] = vec[last'.v]
          /\ LiveThenRaw(vec'[last'.v], mem')
          /\ last'.at = "duplicate" => mem' = mem]_vars

\* C5: copy assignment with rhs.size > capacity: when the allocation or an
\* element copy fails while the copy is built, the destination and rhs are
\* untouched, every element built in the temporary is destroyed and its
\* block is released.
C5_CopyAndSwapFailure ==
    [][(last'.op = "CopyAssign" /\ last'.path = "swap" /\ ~last'.ok) =>
          /\ vec[last'.w].size > vec[last'.v].cap
          /\ vec' = vec
          /\ mem' = mem
          /\ last'.nd = last'.nc
          /\ last'.nf = last'.na
          /\ "release_live" \notin last'.ev]_vars

\* A copy assignment into a smaller, non-empty destination failed after it
\* had copied an element into the temporary.
C5_CopyFailedPartway ==
    /\ last.op = "CopyAssign" /\ last.path = "swap" /\ ~last.ok
    /\ last.at = "copy" /\ last.nc >= 1
    /\ vec[last.v].size >= 1

\* C6: Reserve(k) with k > capacity for a copyable element type whose move
\* may fail: when the allocation or a copy fails, the old block, its
\* elements, size and capacity are as before the call, every element built
\* in the new block is destroyed, the new block is released and the error
\* propagates.
C6_ReserveCopyFailure ==
    [][(last'.op = "Reserve" /\ ~last'.ok /\ elem.copyable /\ ~elem.nothrowMove) =>
          /\ last'.n > vec[last'.v].cap
          /\ vec' = vec
          /\ mem' = mem
          /\ last'.nd = last'.nc
          /\ last'.nf = last'.na
          /\ "release_live" \notin last'.ev]_vars

\* A Reserve on the copy path failed after it had copied an element.
C6_ReserveFailedPartway ==
    /\ last.op = "Reserve" /\ ~last.ok /\ last.at = "transfer"
    /\ elem.copyable /\ ~elem.nothrowMove
    /\ last.nc >= 1

\* The capacities of a Vector that has only been appended to
RECURSIVE Doublings(_)
Doublings(c) == IF c > MaxAppendCap THEN {} ELSE {c} \cup Doublings(2 * c)

\* C7: each successful PushBack/EmplaceBack on a Vector that started
\* default-constructed adds one to size and the appended value at the end of
\* the contents; capacity never decreases, grows from 0 to 1 and otherwise
\* to at least twice the previous capacity, along 0, 1, 2, 4, 8, ...
C7_AppendGrowth ==
    [][(last'.op \in AppendOps /\ last'.ok) =>
          /\ vec'[1].size = vec[1].size + 1
          /\ Contents(vec'[1], mem') = Append(Contents(vec[1], mem), last'.arg.val)
          /\ vec'[1].cap >= vec[1].cap
          /\ vec'[1].cap # vec[1].cap =>
                IF vec[1].cap = 0 THEN vec'[1].cap = 1
                ELSE vec'[1].cap >= 2 * vec[1].cap
          /\ vec[1].cap \in {0} \cup Doublings(1)
          /\ vec'[1].cap \in Doublings(1)]_vars

\* The fifth append has grown the Vector from capacity 4 to capacity 8.
C7_FifthAppendGrows ==
    /\ last.op \in AppendOps /\ last.ok /\ last.path = "grow"
    /\ vec[1].size = 5 /\ vec[1].cap = 8

\* C8: a successful Emplace/Insert of x at position p yields old[0..p), x,
\* old[p..size), size + 1 elements, and returns position p; capacity is
\* unchanged when size < capacity and max(1, 2 * size) when size = capacity.
C8_EmplaceResult ==
    [][(last'.op \in EmplaceOps /\ last'.ok /\ last'.arg.kind # "self") =>
          /\ Contents(vec'[last'.v], mem') =
                InsertAt(Contents(vec[last'.v], mem), last'.pos, last'.arg.val)
          /\ vec'[last'.v].size = vec[last'.v].size + 1
          /\ last'.ret = Iter(vec'[last'.v].buf, last'.pos)
          /\ vec'[last'.v].cap =
                IF vec[last'.v].size < vec[last'.v].cap THEN vec[last'.v].cap
                ELSE Max(1, 2 * vec[last'.v].size)]_vars

\* An Insert at the front of three elements, in place, has shifted them all.
C8_ShiftedThree ==
    /\ last.op = "Insert" /\ last.ok /\ last.path = "shift"
    /\ last.pos = 0 /\ vec[last.v].size = 4
    /\ Contents(vec[last.v], mem)[2] # Contents(vec[last.v], mem)[3]

\* C9: Insert(p, v[i]) by copy places at p the value v[i] had before the
\* call and keeps the other elements in order, on the in-place middle path,
\* the in-place end path and the reallocating path.
C9_InsertOwnElement ==
    [][(last'.op = "Insert" /\ last'.arg.kind = "self" /\ last'.ok) =>
          /\ last'.path \in {"shift", "end", "grow"}
          /\ Contents(vec'[last'.v], mem') =
                InsertAt(Contents(vec[last'.v], mem), last'.pos,
                         Contents(vec[last'.v], mem)[last'.arg.idx + 1])]_vars

\* An in-place Insert before the element it copies, which the shift has
\* moved and whose old slot now holds another value.
C9_CopiedElementShifted ==
    /\ last.op = "Insert" /\ last.arg.kind = "self" /\ last.ok
    /\ last.path = "shift" /\ last.arg.idx > last.pos
    /\ Contents(vec[last.v], mem)[last.arg.idx + 1] #
          Contents(vec[last.v], mem)[last.pos + 1]

\* C10: a successful Erase(p) yields old[0..p), old[p+1..size), size - 1
\* elements, the same capacity and storage block, and returns position p.
C10_EraseResult ==
    [][(last'.op = "Erase" /\ last'.ok) =>
          /\ Contents(vec'[last'.v], mem') =
                RemoveAt(Contents(vec[last'.v], mem), last'.pos)
          /\ vec'[last'.v].size = vec[last'.v].size - 1
          /\ vec'[last'.v].cap = vec[last'.v].cap
          /\ vec'[last'.v].buf = vec[last'.v].buf
          /\ last'.ret = Iter(vec[last'.v].buf, last'.pos)]_vars

\* An Erase in the middle of three elements has moved the last one left.
C10_ErasedMiddle ==
    /\ last.op = "Erase" /\ last.ok
    /\ last.pos = 1 /\ vec[last.v].size = 2
    /\ Contents(vec[last.v], mem)[1] # Contents(vec[last.v], mem)[2]

\* n elements of value x
Repeat(x, n) == [i \in 1 .. n |-> x]

\* C11: Resize(k) with k < size destroys exactly the size - k elements of
\* [k, size) and keeps the prefix and the capacity; with k >= size it
\* default-constructs exactly k - size elements in [size, k) and keeps the
\* values of [0, size); capacity becomes exactly k when k exceeds it (the
\* size old elements are then transferred and destroyed) and is unchanged
\* otherwise; when a default construction fails, size and the values of
\* [0, size) are unchanged.
C11_ResizeResult ==
    [][last'.op = "Resize" =>
          /\ last'.ok =>
                /\ vec'[last'.v].size = last'.n
                /\ vec'[last'.v].cap = Max(vec[last'.v].cap, last'.n)
                /\ LiveThenRaw(vec'[last'.v], mem')
                /\ last'.n < vec[last'.v].size =>
                      /\ last'.nd = vec[last'.v].size - last'.n /\ last'.nc = 0
                      /\ vec'[last'.v].buf = vec[last'.v].buf
                      /\ Contents(vec'[last'.v], mem') =
                            SubSeq(Contents(vec[last'.v], mem), 1, last'.n)
                /\ last'.n >= vec[last'.v].size =>
                      /\ Contents(vec'[last'.v], mem') =
                            Contents(vec[last'.v], mem) \o
                            Repeat(DefaultVal, last'.n - vec[last'.v].size)
                      /\ last'.nc = (last'.n - vec[last'.v].size) +
                            (IF last'.n > vec[last'.v].cap THEN vec[last'.v].size ELSE 0)
                      /\ last'.nd =
                            IF last'.n > vec[last'.v].cap THEN vec[last'.v].size ELSE 0
          /\ (~last'.ok /\ last'.at = "construct") =>
                /\ vec'[last'.v].size = vec[last'.v].size
                /\ Contents(vec'[last'.v], mem') = Contents(vec[last'.v], mem)
                /\ LiveThenRaw(vec'[last'.v], mem')]_vars

\* A Resize beyond the capacity failed in a default construction after it
\* had moved the elements to the new block and built a new one.
C11_ResizeFailedAfterGrowth ==
    /\ last.op = "Resize" /\ ~last.ok /\ last.at = "construct"
    /\ last.path = "grow"
    /\ vec[last.v].size >= 1 /\ last.n >= vec[last.v].size + 2

\* C12: Reserve(k) with k <= capacity changes nothing: capacity, size,
\* block and elements are as before, nothing is allocated, constructed or
\* destroyed.
C12_ReserveNoOp ==
    [][(last'.op = "Reserve" /\ last'.n <= vec[last'.v].cap) =>
          /\ last'.ok
          /\ vec' = vec /\ mem' = mem
          /\ last'.na = 0 /\ last'.nf = 0
          /\ last'.nc = 0 /\ last'.nd = 0]_vars

\* A Reserve of exactly the capacity of a Vector that holds elements.
C12_ReservedCurrentCapacity ==
    /\ last.op = "Reserve" /\ last.path = "noop"
    /\ last.n = vec[last.v].cap /\ vec[last.v].size >= 1

\* C13: a successful Reserve(k) with k > capacity sets capacity to k, keeps
\* size and the element values in order, constructs exactly size elements
\* in the new block, destroys exactly the size old elements and releases
\* the old block.
C13_ReserveGrows ==
    [][(last'.op = "Reserve" /\ last'.ok /\ last'.n > vec[last'.v].cap) =>
          /\ vec'[last'.v].cap = last'.n
          /\ vec'[last'.v].size = vec[last'.v].size
          /\ Contents(vec'[last'.v], mem') = Contents(vec[last'.v], mem)
          /\ LiveThenRaw(vec'[last'.v], mem')
          /\ last'.nc = vec[last'.v].size
          /\ last'.nd = vec[last'.v].size
          /\ "release_live" \notin last'.ev
          /\ last'.na = 1
          /\ vec'[last'.v].buf # vec[last'.v].buf
          /\ vec[last'.v].buf # NullBuf =>
                (last'.nf = 1 /\ mem'[vec[last'.v].buf] = <<>>)]_vars

\* A full Vector of three elements has been given a larger block.
C13_ThreeTransferred ==
    /\ last.op = "Reserve" /\ last.ok /\ last.path = "grow"
    /\ vec[last.v].size = 3 /\ last.nc = 3 /\ last.nf = 1

\* The Vectors whose RawMemory holds block b
Owners(b) == {v \in Vecs : vec[v].exists /\ vec[v].buf = b}
Allocated(m) == {b \in Blocks : Len(m[b]) > 0}

\* Every allocated block belongs to exactly one Vector, a released block to
\* none, and a Vector's block has the slots of its capacity.
OwnedOnce ==
    /\ \A b \in Blocks :
          Cardinality(Owners(b)) = IF Len(mem[b]) > 0 THEN 1 ELSE 0
    /\ \A v \in Vecs :
          vec[v].exists =>
              /\ vec[v].buf = NullBuf <=> vec[v].cap = 0
              /\ vec[v].buf # NullBuf => Len(mem[vec[v].buf]) = vec[v].cap

\* C14: over the operations on two Vectors, failed ones included, no block
\* is owned by two RawMemory objects, no Vector is left with a released
\* block, and the blocks an operation releases are blocks that were
\* allocated, each released once: the allocated blocks change by the
\* allocations less the releases.
C14_BlocksOwnedOnce ==
    [][/\ OwnedOnce'
       /\ Cardinality(Allocated(mem')) - Cardinality(Allocated(mem)) =
             last'.na - last'.nf]_vars

\* A copy assignment has swapped in the block of its temporary and released
\* the old one while the other Vector holds its own block.
C14_TemporarySwappedIn ==
    /\ last.op = "CopyAssign" /\ last.path = "swap" /\ last.ok
    /\ last.na = 1 /\ last.nf = 1
    /\ vec[last.v].buf # NullBuf /\ vec[last.w].buf # NullBuf

\* C15: in every state of a Vector, the state a failed operation leaves
\* included, 0 <= size <= capacity.
C15_SizeWithinCapacity ==
    \A v \in Vecs :
        vec[v].exists => (0 <= vec[v].size /\ vec[v].size <= vec[v].cap)

\* The final assignment of an in-place Emplace has failed on a Vector that
\* has one free slot.
C15_FailedWithOneFreeSlot ==
    /\ ~last.ok /\ last.op \in EmplaceOps /\ last.at = "assign"
    /\ vec[last.v].size + 1 = vec[last.v].cap

\* C16: PopBack on a non-empty Vector destroys exactly the last element,
\* takes one from size and keeps capacity, block and the elements before
\* the last; on an empty Vector it changes nothing; it never fails.
C16_PopBackResult ==
    [][last'.op = "PopBack" =>
          /\ last'.ok
          /\ vec[last'.v].size > 0 =>
                /\ last'.nd = 1 /\ last'.nc = 0
                /\ mem'[vec[last'.v].buf][vec[last'.v].size].st = "raw"
                /\ vec'[last'.v] = [vec[last'.v] EXCEPT !.size = @ - 1]
                /\ Contents(vec'[last'.v], mem') =
                      SubSeq(Contents(vec[last'.v], mem), 1, vec[last'.v].size - 1)
                /\ LiveThenRaw(vec'[last'.v], mem')
          /\ vec[last'.v].size = 0 =>
                /\ vec' = vec /\ mem' = mem
                /\ last'.nd = 0 /\ last'.nc = 0]_vars

\* A PopBack has left two of three elements.
C16_PoppedThird ==
    /\ last.op = "PopBack" /\ last.nd = 1
    /\ vec[last.v].size = 2

\* C17: a reallocating Emplace of a copyable element type whose move may
\* fail: when the construction of the new element or the transfer of the
\* prefix or of the suffix fails, every element built in the new block is
\* destroyed, the new block is released, and the Vector keeps its block,
\* size, capacity and element values.
C17_GrowFailureOnCopyPath ==
    [][(/\ last'.op \in EmplaceOps /\ ~last'.ok
        /\ vec[last'.v].size = vec[last'.v].cap
        /\ last'.at \in {"arg", "transfer"}
        /\ elem.copyable /\ ~elem.nothrowMove) =>
          /\ vec' = vec
          /\ mem' = mem
          /\ last'.nd = last'.nc
          /\ last'.nf = last'.na
          /\ "release_live" \notin last'.ev]_vars

\* The transfer of the suffix failed after the new element, a prefix and a
\* part of the suffix had been built in the new block.
C17_SuffixFailedPartway ==
    /\ last.op \in EmplaceOps /\ ~last.ok
    /\ last.path = "grow" /\ last.at = "transfer"
    /\ elem.copyable /\ ~elem.nothrowMove
    /\ last.pos >= 1 /\ last.nc >= last.pos + 2

\* C18: a successful copy assignment dst = rhs of distinct Vectors leaves
\* dst with the size and the contents of rhs and rhs unchanged; with
\* rhs.size <= capacity(dst) it keeps block and capacity, destroys exactly
\* the max(0, size - rhs.size) tail elements and copy-constructs exactly
\* the max(0, rhs.size - size) extra ones; with rhs.size > capacity(dst)
\* the capacity becomes rhs.size.  When an element assignment or
\* construction fails in place, size is unchanged and [0, size) are live.
C18_CopyAssignResult ==
    [][(last'.op = "CopyAssign" /\ last'.v # last'.w) =>
          /\ vec'[last'.w] = vec[last'.w]
          /\ Contents(vec'[last'.w], mem') = Contents(vec[last'.w], mem)
          /\ last'.ok =>
                /\ vec'[last'.v].size = vec[last'.w].size
                /\ Contents(vec'[last'.v], mem') = Contents(vec[last'.w], mem)
                /\ LiveThenRaw(vec'[last'.v], mem')
                /\ vec[last'.w].size <= vec[last'.v].cap =>
                      /\ vec'[last'.v].buf = vec[last'.v].buf
                      /\ vec'[last'.v].cap = vec[last'.v].cap
                      /\ last'.nd = Max(0, vec[last'.v].size - vec[last'.w].size)
                      /\ last'.nc = Max(0, vec[last'.w].size - vec[last'.v].size)
                      /\ last'.na = 0
                /\ vec[last'.w].size > vec[last'.v].cap =>
                      vec'[last'.v].cap = vec[last'.w].size
          /\ (~last'.ok /\ last'.path \in {"shrink", "extend"}) =>
                /\ vec'[last'.v] = vec[last'.v]
                /\ LiveThenRaw(vec'[last'.v], mem')]_vars

\* An in-place copy assignment has assigned one element and constructed a
\* second one.
C18_AssignedAndConstructed ==
    /\ last.op = "CopyAssign" /\ last.ok /\ last.path = "extend"
    /\ last.nc = 1 /\ vec[last.v].size = 2

\* C19: Vector(n) and Vector(other): on success capacity = size = n (resp.
\* other.size) with n value-initialized elements (resp. the copies of
\* other's elements in order, other unchanged); when the construction of an
\* element fails, the elements built in this call are destroyed, the block
\* is released and no Vector comes into existence.
C19_ConstructorResult ==
    [][last'.op \in {"VectorSized", "VectorCopy"} =>
          /\ (last'.ok /\ last'.op = "VectorSized") =>
                /\ vec'[last'.v].exists
                /\ vec'[last'.v].size = last'.n /\ vec'[last'.v].cap = last'.n
                /\ Contents(vec'[last'.v], mem') = Repeat(DefaultVal, last'.n)
                /\ last'.nc = last'.n /\ last'.nd = 0
          /\ (last'.ok /\ last'.op = "VectorCopy") =>
                /\ vec'[last'.v].exists
                /\ vec'[last'.v].size = vec[last'.w].size
                /\ vec'[last'.v].cap = vec[last'.w].size
                /\ Contents(vec'[last'.v], mem') = Contents(vec[last'.w], mem)
                /\ last'.nc = vec[last'.w].size /\ last'.nd = 0
          /\ last'.ok => LiveThenRaw(vec'[last'.v], mem')
          /\ last'.op = "VectorCopy" =>
                /\ vec'[last'.w] = vec[last'.w]
                /\ Contents(vec'[last'.w], mem') = Contents(vec[last'.w], mem)
          /\ ~last'.ok =>
                /\ ~vec'[last'.v].exists
                /\ mem' = mem
                /\ last'.nd = last'.nc
                /\ last'.nf = last'.na
                /\ "release_live" \notin last'.ev]_vars

\* A sized construction failed at its second element.
C19_SecondElementFailed ==
    /\ last.op = "VectorSized" /\ ~last.ok /\ last.at = "construct"
    /\ last.nc = 1 /\ last.nd = 1

\* The events of an operation that break the lifetime of an element: a
\* read of, an assignment to or a destruction of a slot without a live
\* element, a construction over a live element, the release of a block that
\* holds live elements.
LifetimeEvents ==
    {"read_raw", "assign_to_raw", "destroy_raw", "construct_over_live", "release_live"}

\* C20: no operation assigns to, moves from or reads a slot whose element is
\* not live, every constructed element is destroyed once, and an operation
\* that returns normally leaves no constructed element beyond size; in
\* particular Erase(p) with p < size - 1.
C20_OnlyLiveSlotsTouched ==
    /\ last.ev \cap LifetimeEvents = {}
    /\ last.ok => \A v \in Vecs : LiveThenRaw(vec[v], mem)
====
